---- MODULE Spec2Model ----
(***************************************************************************)
(* Server acquisition of the rift-vscode extension: activation             *)
(* (extension.ts), server-option resolution, bundle download and pruning   *)
(* (activation/downloadBuild.ts) and the local builder                     *)
(* (activation/localBuild.ts).                                             *)
(*                                                                         *)
(* A file name is a sequence of string tokens (string concatenation is     *)
(* sequence concatenation); a path is a sequence of file names.  Every     *)
(* `await` of the source is one step of the thread that executes it; the   *)
(* synchronous code that follows the await belongs to the same step.       *)
(***************************************************************************)
EXTENDS Integers, Sequences, FiniteSets, TLC

\* ------------------------------------------------------------------ bounds
\* How many times, while the extension runs, the user steps in from outside the
\* activation task: runs rift.build-server, accepts the upgrade offer, or edits
\* rift.autostart.  (Answering the activation task's own error message is free.)
MaxUserActions == 1

\* ------------------------------------------------------- program constants
Port == 7797

ExtensionVersion == <<"0.0.9">>

NoPath == << >>

Undefined == [kind |-> "Undefined"]

\* ------------------------------------------------------------ names, paths
Name(s) == <<s>>

StartsWith(name, prefix) ==
  /\ Len(name) >= Len(prefix)
  /\ SubSeq(name, 1, Len(prefix)) = prefix

\* path.join(dir, name)
Join(dir, name) == Append(dir, name)

\* p + suffix, on the text of the path: the suffix lands on the last component
PathPlus(p, suffix) == [p EXCEPT ![Len(p)] = @ \o suffix]

IsPrefix(dir, p) == Len(p) >= Len(dir) /\ SubSeq(p, 1, Len(dir)) = dir

Parents(p) == {SubSeq(p, 1, n) : n \in 1..Len(p)}

homedir == <<Name("home")>>

morphDir == Join(homedir, Name(".morph"))

\* --------------------------------------------------------- platform tables
\* variant: getDefaultInstallProps without the throw of lines 238-240
PlatformSupportedAlways(plat) == plat = plat

PlatformSupported(plat) == plat \in {"darwin", "linux", "win32"}

\* platformSpecific({windows: "core.exe"}) ?? "core"
ExecutableName(plat) == IF plat = "win32" THEN Name("core.exe") ELSE Name("core")

\* does platformSpecific({mac: .., linux: ..}) yield a chmod step
NeedsChmod(plat) == plat \in {"darwin", "linux"}

\* variant: getDefaultInstallProps without the arm64 suffix of lines 242-244
OsNameNoArch(plat, architecture) ==
  CASE plat = "darwin" -> <<"macOS">>
    [] plat = "linux"  -> <<"Linux">>
    [] plat = "win32"  -> <<"Windows">>
    [] OTHER           -> <<"unknown">>

OsName(plat, architecture) ==
  LET base == CASE plat = "darwin" -> <<"macOS">>
                [] plat = "linux"  -> <<"Linux">>
                [] plat = "win32"  -> <<"Windows">>
                [] OTHER           -> <<"unknown">>
  IN IF base = <<"macOS">> /\ architecture = "arm64"
       THEN base \o <<"-arm64">>
       ELSE base

\* getDefaultInstallProps(): defined on supported platforms, throws otherwise
getDefaultInstallProps(plat, architecture) ==
  LET bundleID       == <<"rift-">> \o OsName(plat, architecture) \o <<"-v">> \o ExtensionVersion
      bundleLocation == Join(morphDir, bundleID)
  IN [bundleID       |-> bundleID,
      bundleLocation |-> bundleLocation,
      zipLocation    |-> PathPlus(bundleLocation, <<".zip">>),
      version        |-> ExtensionVersion,
      binLocation    |-> Join(bundleLocation, ExecutableName(plat))]

\* ------------------------------------------------------------------- state
VARIABLES
  platform,       \* process.platform
  arch,           \* process.arch
  autostart,      \* configuration rift.autostart
  riftPath,       \* configuration rift.riftPath (NoPath when unset)
  fs,             \* the paths that exist on disk
  pc,             \* per thread: the await it is suspended at
  ctx,            \* per thread: the caller tryResolveServerOptions returns to
  tr,             \* per thread: the locals of tryResolveServerOptions
  ab,             \* per thread: the locals of autoBuild
  client,         \* morph_language_client: NoClient or the server options it was built with
  nClients,       \* how many MorphLanguageClient objects were constructed
  resolvedCalls,  \* the calls of onServerOptionsResolved made so far
  fResult,        \* how forceResolveServerOptions ended (NotReturned while it has not)
  fFirstProbe,    \* what the first liveness probe of forceResolveServerOptions met
  fAuto,          \* the values rift.autostart held while forceResolveServerOptions ran
  calls,          \* collaborator calls made by forceResolveServerOptions
  prune,          \* the detached readdir(morphDir).then(...) task
  shown,          \* per source: the notification it last showed to the user
  bResult,        \* per thread: how its last autoBuild / buildServer ended
  localRiftVersion, \* the local of upgradeLocalBuildAsNeeded
  userActions,    \* how often the user has stepped in (see MaxUserActions)
  deactivated,    \* has deactivate() been called
  registry,       \* lib/PubSub.ts: the own properties of the object `registry`
  lastPub         \* what the last call of pub did (NoPub before the first)

vars == <<platform, arch, autostart, riftPath, fs, pc, ctx, tr, ab, client,
          nClients, resolvedCalls, fResult, fFirstProbe, fAuto, calls, prune, shown,
          bResult, localRiftVersion, userActions, deactivated, registry, lastPub>>

\* the variables of the activation flow
activationVars == <<platform, arch, autostart, riftPath, fs, pc, ctx, tr, ab, client,
                    nClients, resolvedCalls, fResult, fFirstProbe, fAuto, calls, prune,
                    shown, bResult, localRiftVersion, userActions, deactivated>>

Threads == {"act", "cmd", "upg"}

NoClient == [kind |-> "NoClient"]

NotReturned == [kind |-> "NotReturned"]

Failed(e) == [kind |-> "Failed", err |-> e]

\* the locals of tryResolveServerOptions outside a call
NoLocals == [custom |-> NoPath]

NoCalls == [stat |-> 0, rm |-> 0, download |-> 0, extract |-> 0, exec |-> 0,
            readdir |-> 0, tryResolve |-> 0]

NoPrune == [pc |-> "none", bundleID |-> << >>, pending |-> {}, requested |-> {},
            failed |-> {}]

\* ------------------------------------------------------------ file system
exists(p) == p # NoPath /\ p \in fs

\* mkdir -p / writing a file: the path and its parents come to exist
Create(files, p) == files \cup Parents(p)

\* rm -rf: the path and everything below it cease to exist
RemoveTree(files, p) == {q \in files : ~IsPrefix(p, q)}

\* readdir(dir): the names of the entries of dir
Entries(files, dir) ==
  {q[Len(dir) + 1] : q \in {r \in files : IsPrefix(dir, r) /\ Len(r) = Len(dir) + 1}}

\* The paths of the model's universe, for the current platform.
Props == getDefaultInstallProps(platform, arch)

StaleBundleID == <<"rift-">> \o OsName(platform, arch) \o <<"-v">> \o <<"0.0.8">>

StaleBin == Join(Join(morphDir, StaleBundleID), ExecutableName(platform))

ExternalBin == <<Name("opt"), Name("rift")>>

\* envPath of autoBuild, as a path
EnvBinDir(plat) ==
  IF plat = "win32" THEN Join(Join(morphDir, Name("env")), Name("Scripts"))
                    ELSE Join(Join(morphDir, Name("env")), Name("bin"))

\* envPath + "rift": the value autoBuild writes to rift.riftPath
EnvRiftPath(plat) == Join(EnvBinDir(plat), Name("rift"))

\* the launcher pip install puts into the environment
PipLauncher(plat) ==
  IF plat = "win32" THEN Join(EnvBinDir(plat), Name("rift.exe"))
                    ELSE Join(EnvBinDir(plat), Name("rift"))

\* ----------------------------------------------------------- server options
\* tcpServerOptions(port)
tcpServerOptions(p) == [kind |-> "Network", host |-> "127.0.0.1", port |-> p]

\* variant: an Executable without the arguments of line 128
ExecutableNoPort(binPath, p) ==
  [kind      |-> "Process",
   command   |-> binPath,
   args      |-> << >>,
   transport |-> [kind |-> "socket", port |-> p]]

\* the Executable built by tryResolveServerOptions
Executable(binPath, p) ==
  [kind      |-> "Process",
   command   |-> binPath,
   args      |-> <<"--port", ToString(p)>>,
   transport |-> [kind |-> "socket", port |-> p]]

\* What a connection to 127.0.0.1:Port can meet.  The port belongs to the
\* environment (a server may start or stop at any time), so every probe meets any
\* of: a listener, a refusal, another connection error.
PortStates == {"listening", "refused", "fault"}

\* variant: a probe that reports no listener even when one accepts the connection
isServerRunningBlind(portState) ==
  IF portState = "fault" THEN "throws" ELSE "false"

\* isServerRunning(port), and tcpPortUsed.check: "true", "false", or "throws" when
\* the check rejects (an error other than a refused connection)
isServerRunning(portState) ==
  CASE portState = "listening" -> "true"
    [] portState = "refused"   -> "false"
    [] OTHER                   -> "throws"

\* variant: lines 127-140 without the test of rift.autostart
resolveBinAlways(binPath, auto, p) ==
  IF binPath # NoPath THEN Executable(binPath, p) ELSE Undefined

\* lines 127-140: the value tryResolveServerOptions returns for a binary path
resolveBin(binPath, auto, p) ==
  IF binPath # NoPath /\ auto THEN Executable(binPath, p) ELSE Undefined

\* variant: onServerOptionsResolved without the guard of lines 69-71
onServerOptionsResolvedUnguarded(cl, serverOptions) ==
  [threw |-> FALSE, client |-> serverOptions]

\* extension.ts 68-73: the guard and the construction of the client
onServerOptionsResolved(cl, serverOptions) ==
  IF cl # NoClient
    THEN [threw |-> TRUE, client |-> cl]
    ELSE [threw |-> FALSE, client |-> serverOptions]

\* ------------------------------------------------- returns, throws, catches
NoteSources == {"activate", "buildServer.act", "buildServer.cmd", "outOfDate", "upgrade"}

NoNote == [kind |-> "none", src |-> "none", err |-> "none", actions |-> {}]

ErrorNote(src, e, actions) ==
  [kind |-> "error", src |-> src, err |-> e, actions |-> actions]

InfoNote(src, actions) ==
  [kind |-> "info", src |-> src, err |-> "none", actions |-> actions]

\* the error messages whose text ends with 'try installing Rift manually:
\* https://www.github.com/morph-labs/rift': those of buildServer and of the upgrade
ManualInstallText(src) == src \in {"buildServer", "upgrade"}

ForceRunning == fAuto # {} /\ fResult = NotReturned

InForce(t) == t = "act" /\ ctx[t] \in {"force1", "force2"}

Count(t, field) == IF InForce(t) THEN [calls EXCEPT ![field] = @ + 1] ELSE calls

Goto(t, label) == pc' = [pc EXCEPT ![t] = label]

\* extension.ts 55-63: the catch of the activation task
ActivateCatch(e) ==
  /\ shown' = [shown EXCEPT !["activate"] = ErrorNote("activate", e, {"Try Building Locally"})]
  /\ Goto("act", "errorShown")

\* extension.ts 53-54: forceResolveServerOptions returned v
ForceReturn(v) ==
  LET r == onServerOptionsResolved(client, v) IN
  /\ fResult' = v
  /\ client' = r.client
  /\ nClients' = IF r.threw THEN nClients ELSE nClients + 1
  /\ resolvedCalls' = resolvedCalls \cup
       {[by |-> "activate", had |-> client # NoClient, threw |-> r.threw]}
  /\ IF r.threw THEN ActivateCatch("InvalidState")
               ELSE Goto("act", "done") /\ UNCHANGED shown
  /\ UNCHANGED <<ctx, bResult>>

\* forceResolveServerOptions threw e, into the catch of the activation task
ForceThrow(e) ==
  /\ fResult' = Failed(e)
  /\ ActivateCatch(e)
  /\ UNCHANGED <<client, nClients, resolvedCalls, ctx, bResult>>

BuildSource(t) == IF t = "act" THEN "buildServer.act" ELSE "buildServer.cmd"

\* variant: a catch of buildServer that only rethrows
BuildCatchSilent(t, e) ==
  /\ UNCHANGED shown
  /\ bResult' = [bResult EXCEPT ![t] = Failed(e)]
  /\ Goto(t, "done")
  /\ ctx' = [ctx EXCEPT ![t] = "none"]

\* extension.ts 28-36: the catch of buildServer shows the error and rethrows
BuildCatch(t, e) ==
  /\ shown' = [shown EXCEPT ![BuildSource(t)] = ErrorNote("buildServer", e, {"Close"})]
  /\ bResult' = [bResult EXCEPT ![t] = Failed(e)]
  /\ Goto(t, "done")
  /\ ctx' = [ctx EXCEPT ![t] = "none"]

\* variant: buildServer calls tryResolveServerOptions again when it returns undefined
BuildReturnRetrying(t, v) ==
  IF v = Undefined
    THEN /\ Goto(t, "probe")
         /\ UNCHANGED <<ctx, client, nClients, resolvedCalls, fResult, shown, bResult>>
    ELSE LET r == onServerOptionsResolved(client, v) IN
         /\ client' = r.client
         /\ nClients' = IF r.threw THEN nClients ELSE nClients + 1
         /\ resolvedCalls' = resolvedCalls \cup
              {[by |-> "buildServer", had |-> client # NoClient, threw |-> r.threw]}
         /\ IF r.threw
              THEN BuildCatch(t, "InvalidState")
              ELSE /\ Goto(t, "done")
                   /\ ctx' = [ctx EXCEPT ![t] = "none"]
                   /\ bResult' = [bResult EXCEPT ![t] = [kind |-> "Resolved"]]
                   /\ UNCHANGED shown
         /\ UNCHANGED fResult

\* extension.ts 22-27: tryResolveServerOptions returned v to buildServer
BuildReturn(t, v) ==
  IF v = Undefined
    THEN /\ BuildCatch(t, "BuildFailedOrNotStarted")
         /\ UNCHANGED <<client, nClients, resolvedCalls, fResult>>
    ELSE LET r == onServerOptionsResolved(client, v) IN
         /\ client' = r.client
         /\ nClients' = IF r.threw THEN nClients ELSE nClients + 1
         /\ resolvedCalls' = resolvedCalls \cup
              {[by |-> "buildServer", had |-> client # NoClient, threw |-> r.threw]}
         /\ IF r.threw
              THEN BuildCatch(t, "InvalidState")
              ELSE /\ Goto(t, "done")
                   /\ ctx' = [ctx EXCEPT ![t] = "none"]
                   /\ bResult' = [bResult EXCEPT ![t] = [kind |-> "Resolved"]]
                   /\ UNCHANGED shown
         /\ UNCHANGED fResult

\* variant: forceResolveServerOptions goes back to the bundle check when its
\* second tryResolveServerOptions returns undefined
TryReturnRetrying(t, v) ==
  CASE ctx[t] \in {"force1", "force2"} ->
         IF v # Undefined THEN ForceReturn(v)
         ELSE /\ IF autostart THEN Goto(t, "statBundle") ELSE Goto(t, "waitCheck")
              /\ UNCHANGED <<client, nClients, resolvedCalls, fResult, shown, ctx, bResult>>
    [] OTHER -> BuildReturn(t, v)

\* tryResolveServerOptions returned v to the caller of thread t
TryReturn(t, v) ==
  CASE ctx[t] = "force1" ->
         IF v # Undefined THEN ForceReturn(v)
         ELSE /\ IF autostart THEN Goto(t, "statBundle") ELSE Goto(t, "waitCheck")
              /\ UNCHANGED <<client, nClients, resolvedCalls, fResult, shown, ctx, bResult>>
    [] ctx[t] = "force2" ->
         IF v # Undefined THEN ForceReturn(v) ELSE ForceThrow("CouldNotDownload")
    [] OTHER -> BuildReturn(t, v)

\* tryResolveServerOptions threw e
TryThrow(t, e) ==
  IF InForce(t)
    THEN ForceThrow(e)
    ELSE BuildCatch(t, e) /\ UNCHANGED <<client, nClients, resolvedCalls, fResult>>

\* the call of tryResolveServerOptions: it suspends in isServerRunning
EnterTryResolve(t, caller) ==
  /\ Goto(t, "probe")
  /\ ctx' = [ctx EXCEPT ![t] = caller]

\* --------------------------------------------------- tryResolveServerOptions
\* downloadBuild.ts 110-118
Probe(t) ==
  /\ pc[t] = "probe"
  /\ \E met \in PortStates :
       /\ fFirstProbe' = IF t = "act" /\ ctx[t] = "force1" THEN met ELSE fFirstProbe
       /\ CASE isServerRunning(met) = "true" ->
                 TryReturn(t, tcpServerOptions(Port)) /\ UNCHANGED tr
            [] isServerRunning(met) = "throws" ->
                 TryThrow(t, "ProbeError") /\ UNCHANGED tr
            [] OTHER ->
                 IF ~PlatformSupported(platform)
                   THEN TryThrow(t, "BadOs") /\ UNCHANGED tr
                   ELSE /\ tr' = [tr EXCEPT ![t] = [custom |-> riftPath]]
                        /\ Goto(t, "statCustom")
                        /\ UNCHANGED <<client, nClients, resolvedCalls, fResult, shown,
                                       ctx, bResult>>
  /\ UNCHANGED <<registry, lastPub, deactivated, platform, arch, autostart, riftPath, fs, ab, fAuto, calls, prune,
                 localRiftVersion, userActions>>

\* variant: lines 121-125 with the two branches in the other order
StatCustomBundleFirst(t) ==
  /\ pc[t] = "statCustom"
  /\ calls' = Count(t, "stat")
  /\ LET binPath == IF exists(Props.binLocation) THEN Props.binLocation
                    ELSE IF exists(tr[t].custom) THEN tr[t].custom
                    ELSE NoPath
     IN TryReturn(t, resolveBin(binPath, autostart, Port))
  /\ tr' = [tr EXCEPT ![t] = NoLocals]
  /\ UNCHANGED <<registry, lastPub, deactivated, platform, arch, autostart, riftPath, fs, ab, fFirstProbe, fAuto,
                 prune, localRiftVersion, userActions>>

\* downloadBuild.ts 121-122 (and 127-140 when the custom path exists)
StatCustom(t) ==
  /\ pc[t] = "statCustom"
  /\ calls' = IF tr[t].custom # NoPath THEN Count(t, "stat") ELSE calls
  /\ IF exists(tr[t].custom)
       THEN /\ TryReturn(t, resolveBin(tr[t].custom, autostart, Port))
            /\ tr' = [tr EXCEPT ![t] = NoLocals]
       ELSE /\ Goto(t, "statBin")
            /\ UNCHANGED <<client, nClients, resolvedCalls, fResult, shown, ctx, bResult,
                           tr>>
  /\ UNCHANGED <<registry, lastPub, deactivated, platform, arch, autostart, riftPath, fs, ab, fFirstProbe, fAuto,
                 prune, localRiftVersion, userActions>>

\* downloadBuild.ts 123-140
StatBin(t) ==
  /\ pc[t] = "statBin"
  /\ calls' = Count(t, "stat")
  /\ LET binPath == IF exists(Props.binLocation) THEN Props.binLocation ELSE NoPath
     IN TryReturn(t, resolveBin(binPath, autostart, Port))
  /\ tr' = [tr EXCEPT ![t] = NoLocals]
  /\ UNCHANGED <<registry, lastPub, deactivated, platform, arch, autostart, riftPath, fs, ab, fFirstProbe, fAuto,
                 prune, localRiftVersion, userActions>>

\* ------------------------------------------------- forceResolveServerOptions
\* extension.ts 53 and downloadBuild.ts 147: the attempt starts
StartForce ==
  /\ fAuto' = {autostart}
  /\ calls' = [NoCalls EXCEPT !.tryResolve = 1]
  /\ EnterTryResolve("act", "force1")

\* variant: line 156 testing the executable instead of the bundle directory
StatBundleDeep ==
  /\ pc["act"] = "statBundle"
  /\ IF exists(Props.binLocation)
       THEN /\ EnterTryResolve("act", "force2")
            /\ calls' = [calls EXCEPT !.stat = @ + 1, !.tryResolve = @ + 1]
       ELSE /\ Goto("act", "rmZip")
            /\ calls' = [calls EXCEPT !.stat = @ + 1]
            /\ UNCHANGED ctx
  /\ UNCHANGED <<registry, lastPub, deactivated, platform, arch, autostart, riftPath, fs, tr, ab, client,
                 nClients, resolvedCalls, fResult, fFirstProbe, fAuto, prune, shown,
                 bResult, localRiftVersion, userActions>>

\* downloadBuild.ts 156
StatBundle ==
  /\ pc["act"] = "statBundle"
  /\ IF exists(Props.bundleLocation)
       THEN /\ EnterTryResolve("act", "force2")
            /\ calls' = [calls EXCEPT !.stat = @ + 1, !.tryResolve = @ + 1]
       ELSE /\ Goto("act", "rmZip")
            /\ calls' = [calls EXCEPT !.stat = @ + 1]
            /\ UNCHANGED ctx
  /\ UNCHANGED <<registry, lastPub, deactivated, platform, arch, autostart, riftPath, fs, tr, ab, client, nClients,
                 resolvedCalls, fResult, fFirstProbe, fAuto, prune, shown, bResult, localRiftVersion, userActions>>

\* downloadBuild.ts 157: rm(zipLocation).catch(() => {}); a failure is swallowed
RmZip ==
  /\ pc["act"] = "rmZip"
  /\ \E removed \in BOOLEAN :
       fs' = IF removed THEN fs \ {Props.zipLocation} ELSE fs
  /\ calls' = [calls EXCEPT !.rm = @ + 1]
  /\ Goto("act", "download")
  /\ UNCHANGED <<registry, lastPub, deactivated, platform, arch, autostart, riftPath, tr, ab, ctx, client, nClients,
                 resolvedCalls, fResult, fFirstProbe, fAuto, prune, shown, bResult, localRiftVersion, userActions>>

\* What downloadFile can do: "ok" (archive written, returns true), "notOk" (response
\* not ok or without body, returns false), "fetchError" (fetch rejects),
\* "streamError" (the directory is made and a partial file written, then the pipe fails)
DownloadOutcomes == {"ok", "notOk", "fetchError", "streamError"}

\* downloadFile, lines 70-94: the files after it
downloadFile(files, savePath, outcome) ==
  IF outcome \in {"ok", "streamError"} THEN Create(files, savePath) ELSE files

\* variant: lines 162-165 without the test of gotFile
DownloadUnchecked ==
  /\ pc["act"] = "download"
  /\ calls' = [calls EXCEPT !.download = @ + 1]
  /\ \E outcome \in DownloadOutcomes :
       /\ fs' = downloadFile(fs, Props.zipLocation, outcome)
       /\ CASE outcome \in {"ok", "notOk"} ->
                 /\ Goto("act", "decompress")
                 /\ UNCHANGED <<client, nClients, resolvedCalls, fResult, shown, ctx,
                                bResult>>
            [] outcome = "fetchError" -> ForceThrow("FetchError")
            [] OTHER -> ForceThrow("StreamError")
  /\ UNCHANGED <<registry, lastPub, deactivated, platform, arch, autostart, riftPath, tr, ab, fFirstProbe, fAuto,
                 prune, localRiftVersion, userActions>>

\* downloadBuild.ts 162-165
Download ==
  /\ pc["act"] = "download"
  /\ calls' = [calls EXCEPT !.download = @ + 1]
  /\ \E outcome \in DownloadOutcomes :
       /\ fs' = downloadFile(fs, Props.zipLocation, outcome)
       /\ CASE outcome = "ok" ->
                 /\ Goto("act", "decompress")
                 /\ UNCHANGED <<client, nClients, resolvedCalls, fResult, shown, ctx,
                                bResult>>
            [] outcome = "notOk" -> ForceThrow("RemoteBuildNotAvailable")
            [] outcome = "fetchError" -> ForceThrow("FetchError")
            [] OTHER -> ForceThrow("StreamError")
  /\ UNCHANGED <<registry, lastPub, deactivated, platform, arch, autostart, riftPath, tr, ab, fFirstProbe, fAuto,
                 prune, localRiftVersion, userActions>>

\* What decompress(zipLocation, bundleLocation, {strip: 1}) can do: "full" (the
\* bundle with its executable), "noBin" (a bundle without the executable at its
\* top level), "failPartial" (throws, part of the directory written), "failClean"
DecompressOutcomes == {"full", "noBin", "failPartial", "failClean"}

decompress(files, props, outcome) ==
  CASE outcome = "full" -> Create(files, props.binLocation)
    [] outcome \in {"noBin", "failPartial"} -> Create(files, props.bundleLocation)
    [] OTHER -> files

\* variant: the filter of line 176 without `entry.startsWith("rift-")`
ShouldPruneNotCurrent(entry, bundleID) == entry # bundleID

\* variant: the filter of line 176 without `entry !== bundleID`
ShouldPruneAll(entry, bundleID) == StartsWith(entry, <<"rift-">>)

\* the filter of the pruning loop, line 176
ShouldPrune(entry, bundleID) == entry # bundleID /\ StartsWith(entry, <<"rift-">>)

\* downloadBuild.ts 172-199: extraction, the detached readdir, the start of chmod
Decompress ==
  /\ pc["act"] = "decompress"
  /\ \E outcome \in DecompressOutcomes :
       /\ Props.zipLocation \notin fs => outcome = "failClean"
       /\ fs' = decompress(fs, Props, outcome)
       /\ IF outcome \in {"full", "noBin"}
            THEN /\ prune' = [NoPrune EXCEPT !.pc = "readdir", !.bundleID = Props.bundleID]
                 /\ IF NeedsChmod(platform)
                      THEN /\ Goto("act", "chmod")
                           /\ calls' = [calls EXCEPT !.extract = @ + 1, !.readdir = @ + 1]
                           /\ UNCHANGED ctx
                      ELSE /\ EnterTryResolve("act", "force2")
                           /\ calls' = [calls EXCEPT !.extract = @ + 1, !.readdir = @ + 1,
                                                     !.tryResolve = @ + 1]
                 /\ UNCHANGED <<client, nClients, resolvedCalls, fResult, shown, bResult>>
            ELSE /\ ForceThrow("ExtractFailed")
                 /\ calls' = [calls EXCEPT !.extract = @ + 1]
                 /\ UNCHANGED prune
  /\ UNCHANGED <<registry, lastPub, deactivated, platform, arch, autostart, riftPath, tr, ab, fFirstProbe, fAuto, localRiftVersion, userActions>>

\* exec("chmod +x core", {cwd: bundleLocation}): fails when there is no such file
chmodSucceeds(files, props) == Join(props.bundleLocation, Name("core")) \in files

\* downloadBuild.ts 184-201
Chmod ==
  /\ pc["act"] = "chmod"
  /\ IF chmodSucceeds(fs, Props)
       THEN /\ EnterTryResolve("act", "force2")
            /\ calls' = [calls EXCEPT !.exec = @ + 1, !.tryResolve = @ + 1]
            /\ UNCHANGED <<client, nClients, resolvedCalls, fResult, shown, bResult>>
       ELSE /\ ForceThrow("ChmodFailed")
            /\ calls' = [calls EXCEPT !.exec = @ + 1]
  /\ UNCHANGED <<registry, lastPub, deactivated, platform, arch, autostart, riftPath, fs, tr, ab, fFirstProbe, fAuto,
                 prune, localRiftVersion, userActions>>

\* waitForPort, line 218: the loop test; a rejection of check leaves the function
WaitCheck ==
  /\ pc["act"] = "waitCheck"
  /\ \E met \in PortStates :
       CASE isServerRunning(met) = "true" -> ForceReturn(tcpServerOptions(Port))
         [] isServerRunning(met) = "false" ->
              /\ Goto("act", "waitUntil")
              /\ UNCHANGED <<client, nClients, resolvedCalls, fResult, shown, ctx,
                             bResult>>
         [] OTHER -> ForceThrow("ProbeError")
  /\ UNCHANGED <<registry, lastPub, deactivated, platform, arch, autostart, riftPath, fs, tr, ab, fFirstProbe, fAuto,
                 calls, prune, localRiftVersion, userActions>>

\* waitForPort, lines 220-224: waitUntilUsed resolves (the port is used) or rejects
\* (timeout, connection error); the rejection is caught and logged
WaitUntil ==
  /\ pc["act"] = "waitUntil"
  /\ Goto("act", "waitCheck")
  /\ UNCHANGED <<registry, lastPub, deactivated, platform, arch, autostart, riftPath, fs, tr, ab, ctx, client,
                 nClients, resolvedCalls, fResult, fFirstProbe, fAuto, calls, prune, shown,
                 bResult, localRiftVersion, userActions>>

\* ------------------------------------------------------------------ pruning
\* variant: the readdir of line 174 awaited by forceResolveServerOptions, so that
\* its rejection is thrown into the attempt
PruneListAwaited ==
  /\ prune.pc = "readdir"
  /\ \/ /\ LET stale == {e \in Entries(fs, morphDir) : ShouldPrune(e, prune.bundleID)}
           IN prune' = [prune EXCEPT !.pc = IF stale = {} THEN "done" ELSE "removing",
                                     !.pending = stale, !.requested = stale]
        /\ UNCHANGED <<pc, ctx, client, nClients, resolvedCalls, fResult, shown, bResult>>
     \/ /\ prune' = [prune EXCEPT !.pc = "listFailed"]
        /\ IF ForceRunning
             THEN ForceThrow("PruneFailed")
             ELSE UNCHANGED <<pc, ctx, client, nClients, resolvedCalls, fResult, shown,
                              bResult>>
  /\ UNCHANGED <<registry, lastPub, deactivated, platform, arch, autostart, riftPath, fs, tr, ab, fFirstProbe, fAuto,
                 calls, localRiftVersion, userActions>>

\* downloadBuild.ts 174-181: readdir resolves and the loop starts one rm per stale
\* entry, none of them awaited; a rejection of readdir is handled by nobody
PruneList ==
  /\ prune.pc = "readdir"
  /\ \/ LET stale == {e \in Entries(fs, morphDir) : ShouldPrune(e, prune.bundleID)}
        IN prune' = [prune EXCEPT !.pc = IF stale = {} THEN "done" ELSE "removing",
                                  !.pending = stale, !.requested = stale]
     \/ prune' = [prune EXCEPT !.pc = "listFailed"]
  /\ UNCHANGED <<registry, lastPub, deactivated, platform, arch, autostart, riftPath, fs, pc, ctx, tr, ab, client,
                 nClients, resolvedCalls, fResult, fFirstProbe, fAuto, calls, shown,
                 bResult, localRiftVersion, userActions>>

\* line 178: one rm(path.join(morphDir, entry), {force, recursive}) settles
PruneRemove ==
  /\ prune.pc = "removing"
  /\ \E entry \in prune.pending, ok \in BOOLEAN :
       /\ fs' = IF ok THEN RemoveTree(fs, Join(morphDir, entry)) ELSE fs
       /\ prune' = [prune EXCEPT
                      !.pending = @ \ {entry},
                      !.failed = IF ok THEN @ ELSE @ \cup {entry},
                      !.pc = IF prune.pending = {entry} THEN "done" ELSE "removing"]
  /\ UNCHANGED <<registry, lastPub, deactivated, platform, arch, autostart, riftPath, pc, ctx, tr, ab, client,
                 nClients, resolvedCalls, fResult, fFirstProbe, fAuto, calls, shown,
                 bResult, localRiftVersion, userActions>>

\* -------------------------------------------------------------- environment
\* the user edits rift.autostart
AutostartChanges ==
  /\ userActions < MaxUserActions
  /\ userActions' = userActions + 1
  /\ autostart' = ~autostart
  /\ fAuto' = IF ForceRunning THEN fAuto \cup {~autostart} ELSE fAuto
  /\ UNCHANGED <<registry, lastPub, deactivated, platform, arch, riftPath, fs, pc, ctx, tr, ab, client, nClients,
                 resolvedCalls, fResult, fFirstProbe, calls, prune, shown, bResult,
                 localRiftVersion>>

\* extension.ts 130-132: the editor deactivates the extension; deactivate() calls
\* every function of onDeactivate, the array of downloadBuild.ts:22 that nothing
\* ever pushes to
Deactivate ==
  /\ ~deactivated
  /\ userActions < MaxUserActions
  /\ userActions' = userActions + 1
  /\ deactivated' = TRUE
  /\ UNCHANGED <<registry, lastPub, platform, arch, autostart, riftPath, fs, pc, ctx, tr, ab, client,
                 nClients, resolvedCalls, fResult, fFirstProbe, fAuto, calls, prune,
                 shown, bResult, localRiftVersion>>

\* ------------------------------------------------------------- local builder
NullVersion == << >>

\* SemVer.compare on parsed versions
SemverCompare(a, b) ==
  CASE a[1] # b[1] -> IF a[1] < b[1] THEN -1 ELSE 1
    [] a[2] # b[2] -> IF a[2] < b[2] THEN -1 ELSE 1
    [] a[3] # b[3] -> IF a[3] < b[3] THEN -1 ELSE 1
    [] OTHER -> 0

MinPython == <<3, 10, 0>>

pythonCommands(plat) ==
  IF plat = "win32" THEN <<"py -3.10", "py -3", "py">>
                    ELSE <<"python3.10", "python3", "python">>

\* What `<command> --version` can give: the exec rejects, the output does not match
\* /Python (\d+\.\d+)(?:\.\d+)?/, or it reports a version
PyVersions == {<<3, 9, 18>>, <<3, 10, 0>>}

PyOutcomes ==
  {[status |-> "error", v |-> NullVersion], [status |-> "nomatch", v |-> NullVersion]}
    \cup {[status |-> "version", v |-> v] : v \in PyVersions}

\* variant: any candidate that reports a version is taken
QualifiesAnyVersion(o) == o.status = "version"

\* localBuild.ts 158-168: the match keeps major.minor, coerce adds patch 0
Qualifies(o) ==
  /\ o.status = "version"
  /\ SemverCompare(<<o.v[1], o.v[2], 0>>, MinPython) >= 0

\* the locals of autoBuild outside a call: pythonCommand, and how many candidates ran
NoBuild == [python |-> "null", probed |-> 0]

\* autoBuild returned to its caller
AbReturn(t) ==
  IF t = "upg"
    THEN /\ shown' = [shown EXCEPT !["upgrade"] = InfoNote("upgrade", {})]
         /\ bResult' = [bResult EXCEPT ![t] = [kind |-> "Built"]]
         /\ Goto(t, "done")
         /\ UNCHANGED ctx
    ELSE /\ EnterTryResolve(t, "build")
         /\ bResult' = [bResult EXCEPT ![t] = [kind |-> "Built"]]
         /\ UNCHANGED shown

\* autoBuild threw e
AbThrow(t, e) ==
  IF t = "upg"
    THEN /\ shown' = [shown EXCEPT !["upgrade"] = ErrorNote("upgrade", e, {})]
         /\ bResult' = [bResult EXCEPT ![t] = Failed(e)]
         /\ Goto(t, "done")
         /\ UNCHANGED ctx
    ELSE BuildCatch(t, e)

\* localBuild.ts 139-157: the synchronous head of autoBuild, up to the first exec
AbStart(t) ==
  /\ fs' = Create(fs, morphDir)
  /\ ab' = [ab EXCEPT ![t] = NoBuild]
  /\ bResult' = [bResult EXCEPT ![t] = [kind |-> "Running"]]
  /\ Goto(t, "abProbe")

\* localBuild.ts 154-186: the `<command> --version` of the next candidate settles
AbProbe(t) ==
  /\ pc[t] = "abProbe"
  /\ \E o \in PyOutcomes :
       LET i == ab[t].probed + 1 IN
       IF Qualifies(o)
         THEN /\ ab' = [ab EXCEPT ![t] = [python |-> pythonCommands(platform)[i],
                                          probed |-> i]]
              /\ Goto(t, "abVenv")
              /\ UNCHANGED <<shown, bResult, ctx>>
         ELSE IF i < Len(pythonCommands(platform))
           THEN /\ ab' = [ab EXCEPT ![t].probed = i]
                /\ UNCHANGED <<pc, shown, bResult, ctx>>
           ELSE /\ ab' = [ab EXCEPT ![t] = NoBuild]
                /\ AbThrow(t, "PythonNotFound")
  /\ UNCHANGED <<registry, lastPub, deactivated, platform, arch, autostart, riftPath, fs, tr, client, nClients,
                 resolvedCalls, fResult, fFirstProbe, fAuto, calls, prune,
                 localRiftVersion, userActions>>

\* variant: the rejection of the venv command is swallowed and autoBuild goes on
AbVenvIgnoringFailure(t) ==
  /\ pc[t] = "abVenv"
  /\ fs' \in {fs, Create(fs, EnvBinDir(platform))}
  /\ Goto(t, "abPip")
  /\ ab' = [ab EXCEPT ![t] = NoBuild]
  /\ UNCHANGED <<shown, bResult, ctx>>
  /\ UNCHANGED <<registry, lastPub, deactivated, platform, arch, autostart, riftPath, tr, client, nClients,
                 resolvedCalls, fResult, fFirstProbe, fAuto, calls, prune,
                 localRiftVersion, userActions>>

\* localBuild.ts 184-186: `<python> -m venv <morphDir>/env` settles
AbVenv(t) ==
  /\ pc[t] = "abVenv"
  /\ \/ /\ fs' = Create(fs, EnvBinDir(platform))
        /\ Goto(t, "abPip")
        /\ UNCHANGED <<shown, bResult, ctx>>
     \/ /\ fs' \in {fs, Create(fs, Join(morphDir, Name("env")))}
        /\ AbThrow(t, "VenvFailed")
  /\ ab' = [ab EXCEPT ![t] = NoBuild]
  /\ UNCHANGED <<registry, lastPub, deactivated, platform, arch, autostart, riftPath, tr, client, nClients,
                 resolvedCalls, fResult, fFirstProbe, fAuto, calls, prune,
                 localRiftVersion, userActions>>

\* localBuild.ts 194-195: `pip install` settles; it needs the environment's pip
AbPip(t) ==
  /\ pc[t] = "abPip"
  /\ \/ /\ EnvBinDir(platform) \in fs
        /\ fs' = Create(fs, PipLauncher(platform))
        /\ Goto(t, "abUpdate")
        /\ UNCHANGED <<shown, bResult, ctx>>
     \/ /\ UNCHANGED fs
        /\ AbThrow(t, "PipFailed")
  /\ UNCHANGED <<registry, lastPub, deactivated, platform, arch, autostart, riftPath, tr, ab, client, nClients,
                 resolvedCalls, fResult, fFirstProbe, fAuto, calls, prune,
                 localRiftVersion, userActions>>

\* localBuild.ts 196-198: the update of rift.riftPath settles
AbUpdate(t) ==
  /\ pc[t] = "abUpdate"
  /\ \/ /\ riftPath' = EnvRiftPath(platform)
        /\ AbReturn(t)
     \/ /\ UNCHANGED riftPath
        /\ AbThrow(t, "ConfigUpdateFailed")
  /\ UNCHANGED <<registry, lastPub, deactivated, platform, arch, autostart, fs, tr, ab, client, nClients,
                 resolvedCalls, fResult, fFirstProbe, fAuto, calls, prune,
                 localRiftVersion, userActions>>

\* ------------------------------------------------------------ upgrade check
Versions == {<<0, 1, 9>>, <<0, 2, 0>>}

\* localBuild.ts 99-106: is the upgrade offered; "throws" is the TypeError of
\* null.compare(..) or of compare(null), which the catch of line 130 logs
upgradeCheck(local, remote) ==
  IF local = NullVersion \/ remote = NullVersion THEN "throws"
  ELSE IF SemverCompare(local, remote) = -1 THEN "offer"
  ELSE "none"

\* extension.ts 48-53 and localBuild.ts 83-91: the activation task starts
ActStart ==
  /\ pc["act"] = "start"
  /\ IF riftPath = NoPath \/ ~exists(riftPath)
       THEN StartForce
       ELSE Goto("act", "uVersion") /\ UNCHANGED <<ctx, fAuto, calls>>
  /\ UNCHANGED <<registry, lastPub, deactivated, platform, arch, autostart, riftPath, fs, tr, ab, client, nClients,
                 resolvedCalls, fResult, fFirstProbe, prune, shown, bResult,
                 localRiftVersion, userActions>>

\* variant: getLocalRiftVersion rejects when the exec gives no version
UVersionRejecting ==
  /\ pc["act"] = "uVersion"
  /\ \E v \in Versions \cup {NullVersion} :
       /\ localRiftVersion' = v
       /\ IF v = NullVersion
            THEN ActivateCatch("VersionQueryFailed")
            ELSE Goto("act", "uFetch") /\ UNCHANGED shown
  /\ UNCHANGED userActions
  /\ UNCHANGED <<registry, lastPub, deactivated, platform, arch, autostart, riftPath, fs, ctx, tr, ab, client,
                 nClients, resolvedCalls, fResult, fFirstProbe, fAuto, calls, prune,
                 bResult>>

\* localBuild.ts 53-78 and 91-94: `<binPath> -v` settles, the fetch starts
UVersion ==
  /\ pc["act"] = "uVersion"
  /\ localRiftVersion' \in Versions \cup {NullVersion}
  /\ Goto("act", "uFetch")
  /\ UNCHANGED userActions
  /\ UNCHANGED <<registry, lastPub, deactivated, platform, arch, autostart, riftPath, fs, ctx, tr, ab, client,
                 nClients, resolvedCalls, fResult, fFirstProbe, fAuto, calls, prune, shown,
                 bResult>>

\* localBuild.ts 94-132: the manifest fetch settles (rejected, unparseable, or with a
\* version field that coerces to `remote`); then forceResolveServerOptions starts
UFetch ==
  /\ pc["act"] = "uFetch"
  /\ \E fetched \in BOOLEAN, remote \in Versions \cup {NullVersion} :
       IF fetched /\ upgradeCheck(localRiftVersion, remote) = "offer"
         THEN /\ fAuto' = {autostart}
              /\ calls' = [NoCalls EXCEPT !.tryResolve = 1]
              /\ ctx' = [ctx EXCEPT !["act"] = "force1"]
              /\ pc' = [pc EXCEPT !["act"] = "probe", !["upg"] = "offer"]
              /\ shown' = [shown EXCEPT !["outOfDate"] =
                                      InfoNote("outOfDate", {"Try auto update"})]
         ELSE /\ StartForce
              /\ UNCHANGED shown
  /\ localRiftVersion' = NullVersion
  /\ UNCHANGED userActions
  /\ UNCHANGED <<registry, lastPub, deactivated, platform, arch, autostart, riftPath, fs, tr, ab, client, nClients,
                 resolvedCalls, fResult, fFirstProbe, prune, bResult>>

\* localBuild.ts 112-115: the user answers the out-of-date message
UpgradeAnswer ==
  /\ pc["upg"] = "offer"
  /\ \/ /\ userActions < MaxUserActions
        /\ userActions' = userActions + 1
        /\ AbStart("upg")
     \/ /\ Goto("upg", "done")
        /\ UNCHANGED <<fs, ab, bResult, userActions>>
  /\ UNCHANGED <<registry, lastPub, deactivated, platform, arch, autostart, riftPath, ctx, tr, client, nClients,
                 resolvedCalls, fResult, fFirstProbe, fAuto, calls, prune, shown,
                 localRiftVersion>>

\* extension.ts 57-63: the user answers the error message of the activation task
ErrorAnswer ==
  /\ pc["act"] = "errorShown"
  /\ \/ /\ AbStart("act")
     \/ /\ Goto("act", "done")
        /\ UNCHANGED <<fs, ab, bResult>>
  /\ UNCHANGED <<registry, lastPub, deactivated, platform, arch, autostart, riftPath, ctx, tr, client, nClients,
                 resolvedCalls, fResult, fFirstProbe, fAuto, calls, prune, shown,
                 localRiftVersion, userActions>>

\* extension.ts 39-46: the user runs rift.build-server
Command ==
  /\ pc["cmd"] \in {"idle", "done"}
  /\ userActions < MaxUserActions
  /\ userActions' = userActions + 1
  /\ AbStart("cmd")
  /\ UNCHANGED <<registry, lastPub, deactivated, platform, arch, autostart, riftPath, ctx, tr, client, nClients,
                 resolvedCalls, fResult, fFirstProbe, fAuto, calls, prune, shown,
                 localRiftVersion>>

\* ------------------------------------------------------------ specification
\* ------------------------------------------------------------ lib/PubSub.ts
\* The keys pub and sub are called with: two ordinary strings, and "toString", a
\* property every object literal inherits from Object.prototype.
Keys == {"chat", "logs", "toString"}

InheritedKeys == {"toString"}

\* the functions passed to sub
Handlers == {"f", "g"}

\* the argument lists passed to pub
ArgLists == {<< >>, <<"x">>}

NoHandler == "none"

NoPub == [key |-> "none", args |-> << >>, own |-> FALSE, threw |-> FALSE,
          invoked |-> << >>]

\* registry[key] as line 7 reads it: the own property, else the inherited one,
\* else undefined
Lookup(reg, key) ==
  IF reg[key] # NoHandler THEN reg[key]
  ELSE IF key \in InheritedKeys THEN "Object.prototype." \o key
  ELSE NoHandler

\* lines 12-19: sub(key, fn)
Sub(key, fn) ==
  /\ registry' = [registry EXCEPT ![key] = fn]
  /\ UNCHANGED lastPub
  /\ UNCHANGED activationVars

\* lines 3-10: pub(key, ...args)
Pub(key, args) ==
  /\ LET fn == Lookup(registry, key) IN
       lastPub' = [key     |-> key,
                   args    |-> args,
                   own     |-> registry[key] # NoHandler,
                   threw   |-> fn = NoHandler,
                   invoked |-> IF fn = NoHandler THEN << >>
                                                 ELSE <<[fn |-> fn, args |-> args]>>]
  /\ UNCHANGED registry
  /\ UNCHANGED activationVars

TargetInits == {<<"linux", "x64">>, <<"win32", "x64">>, <<"freebsd", "x64">>}

\* What the application-data directory and rift.riftPath hold when the editor
\* starts: a fresh machine; a local build next to an old bundle; an old bundle
\* and the leftover archive of a broken download; an old bundle that rift.riftPath
\* points into; a bundle directory without its executable; an installed
\* bundle with and without a custom binary elsewhere
DiskInits ==
  { [fs |-> {}, riftPath |-> NoPath],
    [fs |-> Create({}, StaleBin) \cup Create({}, PipLauncher(platform)),
     riftPath |-> EnvRiftPath(platform)],
    [fs |-> Create({}, StaleBin) \cup Create({}, Props.zipLocation), riftPath |-> NoPath],
    [fs |-> Create({}, StaleBin), riftPath |-> StaleBin],
    [fs |-> Create({}, Props.bundleLocation), riftPath |-> NoPath],
    [fs |-> Create({}, Props.binLocation) \cup Create({}, ExternalBin),
     riftPath |-> ExternalBin],
    [fs |-> Create({}, Props.binLocation), riftPath |-> ExternalBin] }

Init ==
  /\ \E target \in TargetInits : platform = target[1] /\ arch = target[2]
  /\ autostart \in BOOLEAN
  /\ \E disk \in DiskInits : fs = disk.fs /\ riftPath = disk.riftPath
  /\ pc = [t \in Threads |-> CASE t = "act" -> "start" [] t = "cmd" -> "idle"
                               [] OTHER -> "none"]
  /\ ctx = [t \in Threads |-> "none"]
  /\ tr = [t \in Threads |-> NoLocals]
  /\ ab = [t \in Threads |-> NoBuild]
  /\ client = NoClient
  /\ nClients = 0
  /\ resolvedCalls = {}
  /\ fResult = NotReturned
  /\ fFirstProbe = "none"
  /\ fAuto = {}
  /\ calls = NoCalls
  /\ prune = NoPrune
  /\ shown = [src \in NoteSources |-> NoNote]
  /\ bResult = [t \in Threads |-> [kind |-> "None"]]
  /\ localRiftVersion = NullVersion
  /\ userActions = 0
  /\ deactivated = FALSE
  /\ registry = [key \in Keys |-> NoHandler]
  /\ lastPub = NoPub

Next ==
  \/ ActStart
  \/ UVersion
  \/ UFetch
  \/ UpgradeAnswer
  \/ \E t \in Threads : Probe(t)
  \/ \E t \in Threads : StatCustom(t)
  \/ \E t \in Threads : StatBin(t)
  \/ StatBundle
  \/ RmZip
  \/ Download
  \/ Decompress
  \/ Chmod
  \/ WaitCheck
  \/ WaitUntil
  \/ PruneList
  \/ PruneRemove
  \/ ErrorAnswer
  \/ Command
  \/ \E t \in Threads : AbProbe(t)
  \/ \E t \in Threads : AbVenv(t)
  \/ \E t \in Threads : AbPip(t)
  \/ \E t \in Threads : AbUpdate(t)
  \/ AutostartChanges
  \/ Deactivate

Spec == Init /\ [][Next]_vars

\* lib/PubSub.ts on its own: any sequence of sub and pub calls
PubSubInit ==
  /\ Init
  /\ platform = "linux"
  /\ autostart
  /\ fs = {}

PubSubNext ==
  \/ \E key \in Keys, fn \in Handlers : Sub(key, fn)
  \/ \E key \in Keys, args \in ArgLists : Pub(key, args)

PubSubSpec == PubSubInit /\ [][PubSubNext]_vars

\* ------------------------------------------------------------------ claims
NoCollaboratorCalls ==
  /\ calls.stat = 0
  /\ calls.rm = 0
  /\ calls.download = 0
  /\ calls.extract = 0
  /\ calls.exec = 0
  /\ calls.readdir = 0

\* C1: when the first liveness probe of forceResolveServerOptions meets a
\* listener, the attempt has returned the Network endpoint of the port, after the
\* one call of tryResolveServerOptions and with no stat, rm, download, extraction,
\* subprocess or readdir made.
C1_ProbeSucceedsNoCalls ==
  fFirstProbe = "listening" =>
    /\ fResult = tcpServerOptions(Port)
    /\ NoCollaboratorCalls
    /\ calls.tryResolve = 1

\* C1 happens: a listener met on a machine with an installed bundle and a custom
\* binary, and the client was built on the Network endpoint.
C1_Witness ==
  /\ fFirstProbe = "listening"
  /\ fResult = tcpServerOptions(Port)
  /\ client = tcpServerOptions(Port)
  /\ exists(riftPath)
  /\ exists(Props.binLocation)

\* C2: at most one MorphLanguageClient is ever constructed; every call of
\* onServerOptionsResolved made while a client existed threw, and a client, once
\* constructed, is never replaced.
C2_OneClient ==
  /\ [](/\ nClients <= 1
        /\ (nClients = 0) = (client = NoClient)
        /\ \A c \in resolvedCalls : c.had = c.threw)
  /\ [][client # NoClient => client' = client /\ nClients' = nClients]_vars

\* C2 happens: the activation task and a buildServer both resolved options; the
\* second call threw and one client exists.
C2_Witness ==
  /\ nClients = 1
  /\ \E c \in resolvedCalls : c.had /\ c.threw
  /\ \E c \in resolvedCalls : ~c.had /\ ~c.threw

\* rift.autostart was false for the whole of the attempt
AutostartOff == fAuto = {FALSE}

\* rift.autostart was true for the whole of the attempt
AutostartOn == fAuto = {TRUE}

BuildLabels == {"abProbe", "abVenv", "abPip", "abUpdate"}

\* C3: on a supported platform, with rift.autostart false and the first probe
\* refused, forceResolveServerOptions ends in one way only: it returns the Network
\* endpoint of the port (it waits until the port is reachable, and then returns it).
C3_WaitManualEndsNetwork ==
  (AutostartOff /\ PlatformSupported(platform) /\ fFirstProbe = "refused"
     /\ fResult # NotReturned)
    => fResult = tcpServerOptions(Port)

\* C4: an attempt during which rift.autostart is false removes no archive,
\* downloads nothing, extracts nothing, runs no subprocess and no local build, and
\* returns nothing but the Network endpoint of the port.
C4_AutostartOffLaunchesNothing ==
  AutostartOff =>
    /\ calls.rm = 0
    /\ calls.download = 0
    /\ calls.extract = 0
    /\ calls.exec = 0
    /\ calls.readdir = 0
    /\ prune = NoPrune
    /\ fResult = NotReturned => pc["act"] \notin BuildLabels
    /\ fResult.kind \in {"NotReturned", "Failed", "Network"}
    /\ fResult.kind = "Network" => fResult = tcpServerOptions(Port)

\* C4 happens: the bundle is installed and the custom binary exists, the first
\* probe was refused, autostart is off, and the attempt returned the Network endpoint
\* after waiting.
C4_Witness ==
  /\ AutostartOff
  /\ fFirstProbe = "refused"
  /\ exists(Props.binLocation)
  /\ exists(riftPath)
  /\ calls.stat = 1
  /\ fResult = tcpServerOptions(Port)

\* the errors with which a failed download ends the attempt
DownloadErrors == {"RemoteBuildNotAvailable", "FetchError", "StreamError"}

DownloadFailed == fResult.kind = "Failed" /\ fResult.err \in DownloadErrors

\* the attempt found no binary and no bundle directory, and went on to download
DownloadBranch == calls.rm = 1

C5_State ==
  /\ calls.download <= 1
  /\ calls.extract <= calls.download
  /\ pc["act"] = "decompress" =>
        /\ calls.download = 1
        /\ calls.extract = 0
        /\ exists(Props.zipLocation)
  /\ calls.extract = 1 => ~DownloadFailed
  /\ (DownloadBranch /\ pc["act"] # "download") => calls.download = 1
  /\ (DownloadBranch /\ calls.tryResolve = 2) => calls.extract = 1
  /\ DownloadFailed =>
        /\ calls.extract = 0
        /\ calls.tryResolve = 1
        /\ prune = NoPrune
        /\ client = NoClient \/ fResult # client
        /\ pc["act"] = "errorShown" =>
              /\ bResult["act"].kind = "None"
              /\ shown["activate"] =
                   ErrorNote("activate", fResult.err, {"Try Building Locally"})

C5_Step ==
  /\ (pc["act"] = "statBin" /\ ctx["act"] = "force1" /\ autostart
        /\ ~exists(Props.binLocation) /\ pc'["act"] # "statBin")
       => pc'["act"] = "statBundle"
  /\ (pc["act"] = "statBundle" /\ ~exists(Props.bundleLocation)
        /\ pc'["act"] # "statBundle")
       => pc'["act"] = "rmZip"
  /\ (bResult["act"].kind = "None" /\ bResult'["act"].kind # "None")
       => pc["act"] = "errorShown"

\* C5: an attempt that finds rift.autostart true, no custom binary, no bundle
\* binary and no bundle directory removes the stale archive and downloads exactly
\* once; it extracts exactly once, and only an archive the download delivered, before
\* the second tryResolveServerOptions; a failed download ends the attempt with the
\* download's error, without extraction, pruning or re-check, and the local builder
\* of the activation task starts only from the answer to the error message.
C5_OneDownloadThenExtract == []C5_State /\ [][C5_Step]_vars

\* C5 happens: autostart on, the first probe refused, nothing installed; the
\* download was refused by the server and the error message is waiting for its
\* answer.
C5_Witness ==
  /\ AutostartOn
  /\ fFirstProbe = "refused"
  /\ riftPath = NoPath
  /\ fResult = Failed("RemoteBuildNotAvailable")
  /\ calls.download = 1
  /\ calls.extract = 0
  /\ pc["act"] = "errorShown"

\* the server options v launch binPath with `--port 7797` over a socket on 7797
LaunchesOn(v, binPath) ==
  /\ v.kind = "Process"
  /\ v.command = binPath
  /\ v.args = <<"--port", "7797">>
  /\ v.transport = [kind |-> "socket", port |-> Port]

\* thread t's tryResolveServerOptions returns, in this step, options that launch
\* binPath: forceResolveServerOptions returns them, and they reach
\* onServerOptionsResolved, which builds the client on them unless one exists
ReturnsLaunchOf(t, binPath) ==
  /\ InForce(t) => LaunchesOn(fResult', binPath)
  /\ client = NoClient => LaunchesOn(client', binPath)

C6_Step ==
  \A t \in Threads :
    /\ (pc[t] = "statCustom" /\ pc'[t] # "statCustom" /\ autostart
          /\ exists(tr[t].custom))
         => ReturnsLaunchOf(t, tr[t].custom)
    /\ (pc[t] = "statCustom" /\ pc'[t] # "statCustom" /\ ~exists(tr[t].custom))
         => pc'[t] = "statBin"
    /\ (pc[t] = "statBin" /\ pc'[t] # "statBin" /\ autostart
          /\ exists(Props.binLocation))
         => ReturnsLaunchOf(t, Props.binLocation)

\* C6: with the probe refused and rift.autostart true, tryResolveServerOptions
\* returns a launch of the configured rift.riftPath when that path exists, whether
\* or not the bundle binary exists too; otherwise, when the bundle binary exists, a
\* launch of the bundle binary; both with the arguments `--port 7797` and a socket
\* transport on 7797.
C6_CustomPathFirst == [][C6_Step]_vars

\* C6 happens: the custom binary and the bundle binary both exist and the client
\* launches the custom binary.
C6_Witness ==
  /\ exists(Props.binLocation)
  /\ riftPath = ExternalBin
  /\ exists(riftPath)
  /\ fFirstProbe = "refused"
  /\ LaunchesOn(fResult, ExternalBin)
  /\ LaunchesOn(client, ExternalBin)

\* a step of forceResolveServerOptions
ForceStep ==
  \/ Probe("act")
  \/ StatCustom("act")
  \/ StatBin("act")
  \/ StatBundle
  \/ RmZip
  \/ Download
  \/ Decompress
  \/ Chmod
  \/ WaitCheck
  \/ WaitUntil

\* how far forceResolveServerOptions has come along lines 147-214
ForceRank ==
  IF fResult # NotReturned THEN 12
  ELSE LET second == IF ctx["act"] = "force2" THEN 8 ELSE 0 IN
       CASE pc["act"] = "probe"      -> 1 + second
         [] pc["act"] = "statCustom" -> 2 + second
         [] pc["act"] = "statBin"    -> 3 + second
         [] pc["act"] = "statBundle" -> 4
         [] pc["act"] = "rmZip"      -> 5
         [] pc["act"] = "download"   -> 6
         [] pc["act"] = "decompress" -> 7
         [] pc["act"] = "chmod"      -> 8
         [] OTHER                    -> 0

C7_State ==
  AutostartOn =>
    /\ calls.download <= 1
    /\ calls.extract <= 1
    /\ calls.extract <= calls.download
    /\ calls.tryResolve <= 2
    /\ pc["act"] \notin {"waitCheck", "waitUntil"}
    /\ fResult = NotReturned => ForceRank > 0 /\ ENABLED ForceStep
    /\ fResult.kind \in {"NotReturned", "Failed", "Network", "Process"}

C7_Step ==
  /\ (ForceRunning /\ AutostartOn' /\ pc'["act"] # pc["act"])
       => ForceRank' > ForceRank
  /\ (ForceRunning /\ AutostartOn' /\ ctx["act"] = "force2" /\ pc["act"] = "statBin"
        /\ pc'["act"] # "statBin" /\ ~exists(Props.binLocation))
       => /\ fResult' = Failed("CouldNotDownload")
          /\ pc'["act"] = "errorShown"

\* C7: while rift.autostart stays true, forceResolveServerOptions never waits for
\* the port, always has a next step, and every step takes it strictly further along
\* a path of at most twelve positions, so it ends (returning options or throwing)
\* once each awaited operation settles; it downloads and extracts at most once and
\* calls tryResolveServerOptions at most twice; when the second call finds no
\* listener and no binary, the attempt throws.
C7_AutostartOnTerminates == []C7_State /\ [][C7_Step]_vars

\* C7 happens: autostart on; one download, one extraction of an archive without
\* the executable, a second tryResolveServerOptions that found nothing, and the
\* attempt threw.
C7_Witness ==
  /\ AutostartOn
  /\ calls.download = 1
  /\ calls.extract = 1
  /\ calls.tryResolve = 2
  /\ fResult = Failed("CouldNotDownload")

PruneStarted == prune.pc # "none"

\* a step of the detached pruning task
PruneStep == prune.pc # "none" /\ prune' # prune

C8_Step ==
  PruneStep =>
    \A q \in fs : IsPrefix(Props.bundleLocation, q) => q \in fs'

\* C8: the pruning task never asks for the removal of the entry named bundleID,
\* and none of its steps removes the bundle directory or anything inside it: once
\* pruning has started the bundle directory exists for good.
C8_PruneKeepsCurrentBundle ==
  /\ [](PruneStarted =>
          /\ prune.bundleID = Props.bundleID
          /\ prune.bundleID \notin prune.requested
          /\ exists(Props.bundleLocation))
  /\ [][C8_Step]_vars

\* C8 happens: pruning removed an old bundle directory and the archive, and the
\* bundle directory of the current version with its executable is still there.
C8_Witness ==
  /\ prune.pc = "done"
  /\ StaleBundleID \in prune.requested
  /\ prune.failed = {}
  /\ ~exists(Join(morphDir, StaleBundleID))
  /\ exists(Props.binLocation)

\* the paths forceResolveServerOptions tests after it has started the pruning
AttemptReads ==
  {Props.bundleLocation, Join(Props.bundleLocation, Name("core")), Props.binLocation,
   riftPath, tr["act"].custom} \ {NoPath}

C9_State ==
  PruneStarted =>
    /\ fResult.kind = "Failed" => fResult.err \in {"ChmodFailed", "ProbeError",
                                                   "CouldNotDownload"}
    /\ fResult.kind = "Process" => exists(fResult.command)
    /\ fResult = NotReturned => ENABLED ForceStep

C9_Step ==
  PruneStep =>
    /\ UNCHANGED <<pc, ctx, tr, calls, fResult, client, nClients, resolvedCalls, shown,
                   bResult, riftPath, autostart>>
    /\ \A p \in AttemptReads : (p \in fs') = (p \in fs)

\* C9: no step of the pruning task (listing, a removal, a failure of either)
\* changes the position or the result of the attempt, the client, what is shown to
\* the user, or the existence of any path the attempt tests afterwards; the attempt
\* never waits for the pruning, never fails with an error of the pruning, and the
\* binary it returns is never one the pruning removes.
C9_PruneDetached == []C9_State /\ [][C9_Step]_vars

\* C9 happens: one removal of the pruning failed, others are still pending, and the
\* attempt has returned the launch of the bundle binary to the client.
C9_Witness ==
  /\ prune.pc = "removing"
  /\ prune.failed # {}
  /\ LaunchesOn(fResult, Props.binLocation)
  /\ client = fResult

\* C10: the pruning task is started only when the download, the extraction and,
\* where the platform has one, the chmod of the executable have succeeded.
C10_PruneAfterInstall ==
  PruneStarted =>
    /\ calls.download = 1
    /\ calls.extract = 1
    /\ NeedsChmod(platform) => calls.exec = 1 /\ fResult # Failed("ChmodFailed")

\* the threads that run buildServer
Builders == {"act", "cmd"}

ResolveLabels == {"probe", "statCustom", "statBin"}

DownloadLabels == {"statBundle", "rmZip", "download", "decompress", "chmod"}

WaitLabels == {"waitCheck", "waitUntil"}

\* thread t is inside buildServer
InBuild(t) ==
  pc[t] \in BuildLabels \/ (pc[t] \in ResolveLabels /\ ctx[t] = "build")

C11_State ==
  /\ pc["cmd"] \notin DownloadLabels \cup WaitLabels
  /\ ctx["act"] = "build" => pc["act"] \notin DownloadLabels \cup WaitLabels

C11_Step ==
  \A t \in Builders :
    /\ (~InBuild(t) /\ InBuild(t)') => pc'[t] = "abProbe"
    /\ (t = "cmd" /\ pc'[t] # pc[t] /\ pc[t] \in {"idle", "done"}) => pc'[t] = "abProbe"
    /\ (InBuild(t) /\ pc'[t] # pc[t]) =>
          /\ calls' = calls /\ prune' = prune /\ fResult' = fResult
          /\ pc'[t] = "probe" => pc[t] = "abUpdate"
          /\ pc[t] = "probe" => pc'[t] \in {"statCustom", "done"}
          /\ pc[t] = "statCustom" => pc'[t] \in {"statBin", "done"}
          /\ pc[t] = "statBin" => pc'[t] = "done"
          /\ (pc[t] = "statBin" /\ (~autostart \/ ~exists(Props.binLocation))) =>
                /\ bResult'[t] = Failed("BuildFailedOrNotStarted")
                /\ shown'[BuildSource(t)] =
                     ErrorNote("buildServer", "BuildFailedOrNotStarted", {"Close"})
                /\ client' = client

\* C11: buildServer, started by rift.build-server or by 'Try Building Locally',
\* always begins with autoBuild, whatever the disk, rift.riftPath and the client
\* are; after autoBuild it goes once through tryResolveServerOptions (probe, custom
\* path, bundle binary) and ends, without a download, an extraction, a chmod,
\* pruning or a wait for the port; when tryResolveServerOptions returns undefined
\* it fails with 'Build failed or not started. Is AutoStart enabled?', shown with the
\* advice to install Rift manually.
C11_BuildLocalOnce == []C11_State /\ [][C11_Step]_vars

\* C11 happens: with a client built and the bundle installed, rift.build-server
\* built locally, resolved once, got undefined and failed with the advice.
C11_Witness ==
  /\ client # NoClient
  /\ exists(Props.binLocation)
  /\ bResult["cmd"] = Failed("BuildFailedOrNotStarted")
  /\ shown["buildServer.cmd"] =
       ErrorNote("buildServer", "BuildFailedOrNotStarted", {"Close"})

\* the command names of pythonCommands
Candidates(plat) == {pythonCommands(plat)[i] : i \in 1..Len(pythonCommands(plat))}

\* the error with which autoBuild leaves from each of its awaits
BuildError(label) ==
  CASE label = "abProbe" -> "PythonNotFound"
    [] label = "abVenv"  -> "VenvFailed"
    [] label = "abPip"   -> "PipFailed"
    [] OTHER             -> "ConfigUpdateFailed"

C12_State ==
  \A t \in Threads :
    /\ pc[t] \in BuildLabels => exists(morphDir) /\ bResult[t].kind = "Running"
    /\ pc[t] = "abVenv" => ab[t].python \in Candidates(platform)
    /\ pc[t] = "abPip" => exists(EnvBinDir(platform))
    /\ pc[t] = "abUpdate" => exists(PipLauncher(platform))

C12_Step ==
  \A t \in Threads :
    (pc[t] \in BuildLabels /\ pc'[t] # pc[t]) =>
      /\ pc[t] = "abProbe" => pc'[t] \in {"abVenv", "done"}
      /\ pc[t] = "abVenv" => pc'[t] \in {"abPip", "done"}
      /\ pc[t] = "abPip" => pc'[t] \in {"abUpdate", "done"}
      /\ pc[t] = "abUpdate" => pc'[t] \in {"probe", "done"}
      /\ (pc'[t] = "done" /\ bResult'[t].kind # "Built") =>
            /\ bResult'[t] = Failed(BuildError(pc[t]))
            /\ shown'[IF t = "upg" THEN "upgrade" ELSE BuildSource(t)].kind = "error"
            /\ shown'[IF t = "upg" THEN "upgrade" ELSE BuildSource(t)].err =
                 BuildError(pc[t])
            /\ riftPath' = riftPath
            /\ pc[t] \in {"abProbe", "abPip", "abUpdate"} => fs' = fs
      /\ (pc[t] = "abProbe" /\ pc'[t] = "done") =>
            ab[t].probed = Len(pythonCommands(platform)) - 1

ProbeOutputs ==
  PyOutcomes \cup
    {[status |-> "version", v |-> <<major, minor, patch>>] :
       major \in {2, 3, 4}, minor \in {0, 9, 10, 11}, patch \in {0, 18}}

\* the reported version is 3.10.0 or above
AtLeast310(v) == v[1] > 3 \/ (v[1] = 3 /\ v[2] >= 10)

C13_State ==
  /\ \A o \in ProbeOutputs : Qualifies(o) = (o.status = "version" /\ AtLeast310(o.v))
  /\ Qualifies([status |-> "version", v |-> <<3, 10, 0>>])
  /\ ~Qualifies([status |-> "version", v |-> <<3, 9, 18>>])
  /\ \A t \in Threads :
       pc[t] = "abProbe" =>
         /\ ab[t].python = "null"
         /\ ab[t].probed < Len(pythonCommands(platform))

C13_Step ==
  \A t \in Threads :
    /\ (pc[t] = "abProbe" /\ (pc'[t] # pc[t] \/ ab'[t] # ab[t])) =>
          /\ fs' = fs
          /\ pc'[t] \in {"abProbe", "abVenv", "done"}
          /\ pc'[t] = "abProbe" =>
                /\ ab'[t].probed = ab[t].probed + 1
                /\ ab'[t].python = "null"
          /\ pc'[t] = "abVenv" =>
                /\ ab'[t].probed = ab[t].probed + 1
                /\ ab'[t].python = pythonCommands(platform)[ab[t].probed + 1]
    /\ pc[t] \in {"abVenv", "abPip", "abUpdate"} => pc'[t] # "abProbe"

\* C13: autoBuild runs `<candidate> --version` for one candidate at a time in the
\* order of pythonCommands; a candidate is taken exactly when its output reports a
\* version of 3.10 or above (3.10.0 is taken, 3.9.18 is not, a failed or unreadable
\* answer is not); the candidate taken is the one just probed, it is the one the
\* environment is created with, and no candidate is probed after it.
C13_FirstQualifyingCandidate == []C13_State /\ [][C13_Step]_vars

\* C13 happens: the first candidate was skipped, the second was taken, and the
\* environment is being created with it while the third was never probed.
C13_Witness ==
  /\ pc["cmd"] = "abVenv"
  /\ ab["cmd"].probed = 2
  /\ ab["cmd"].python = pythonCommands(platform)[2]

C14_Step ==
  \A t \in Threads :
    (pc[t] \in BuildLabels /\ pc'[t] # pc[t]) => riftPath' = riftPath

\* C14: no step of autoBuild, in a run that succeeds or in one that fails, changes
\* the setting rift.riftPath.
C14_BuilderLeavesRiftPath == [][C14_Step]_vars

\* C15: no notification shown to the user is about the 'Invalid state - client
\* already exists' error.
C15_InvalidStateNotShown ==
  \A src \in NoteSources : shown[src].err # "InvalidState"

\* process.platform is none of the three values the extension names
UnsupportedPlatform == platform \notin {"darwin", "linux", "win32"}

\* C16 as stated: on an unsupported platform every attempt that has ended has
\* ended with the unsupported-platform error.
C16_UnsupportedAlwaysFails ==
  (UnsupportedPlatform /\ fResult # NotReturned) => fResult = Failed("BadOs")

\* C16, amended: on an unsupported platform an attempt whose first probe is
\* refused ends with the unsupported-platform error; no attempt and no buildServer
\* ever yields a Process endpoint, a Network endpoint is returned only when the first
\* probe met a listener, and the attempt makes no stat, rm, download, extraction,
\* subprocess or readdir and never waits for the port.
C16_UnsupportedNoLaunch ==
  UnsupportedPlatform =>
    /\ (fFirstProbe = "refused" /\ fResult # NotReturned) => fResult = Failed("BadOs")
    /\ fResult.kind \in {"NotReturned", "Failed", "Network"}
    /\ fResult.kind = "Network" => fFirstProbe = "listening"
    /\ fResult.kind = "Failed" => fResult.err \in {"BadOs", "ProbeError"}
    /\ client # NoClient => client = tcpServerOptions(Port)
    /\ NoCollaboratorCalls
    /\ calls.tryResolve <= 1
    /\ pc["act"] \notin DownloadLabels \cup WaitLabels \cup {"statCustom", "statBin"}

\* C16 happens: on freebsd, with a bundle directory on disk and autostart on, the
\* first probe was refused and the attempt ended with the unsupported-platform
\* error, shown to the user.
C16_Witness ==
  /\ platform = "freebsd"
  /\ autostart
  /\ exists(Props.binLocation)
  /\ fFirstProbe = "refused"
  /\ fResult = Failed("BadOs")
  /\ shown["activate"].err = "BadOs"

\* C17: while the version check of the activation task is pending (its
\* `<riftPath> -v` or its manifest fetch has not settled), forceResolveServerOptions
\* has already been called.
C17_AttemptStartsWithoutCheck ==
  pc["act"] \in {"uVersion", "uFetch"} => fAuto # {}

\* the activation task called forceResolveServerOptions in this step, from a state
\* where nothing of the attempt had happened
ForceInvoked ==
  /\ pc'["act"] = "probe"
  /\ ctx'["act"] = "force1"
  /\ fAuto' = {autostart}
  /\ calls' = [NoCalls EXCEPT !.tryResolve = 1]
  /\ fResult = NotReturned /\ fResult' = NotReturned
  /\ fFirstProbe' = "none"
  /\ shown'["activate"] = NoNote

C18_State ==
  /\ shown["activate"].kind = "error" =>
       /\ fAuto # {}
       /\ fResult # NotReturned
       /\ shown["activate"].err = IF fResult.kind = "Failed" THEN fResult.err
                                                           ELSE "InvalidState"
  /\ shown["upgrade"].kind = "error" => bResult["upg"] = Failed(shown["upgrade"].err)

C18_Step ==
  /\ (pc["act"] = "uVersion" /\ pc'["act"] # "uVersion") =>
       /\ pc'["act"] = "uFetch"
       /\ shown' = shown
  /\ (pc["act"] = "uFetch" /\ pc'["act"] # "uFetch") => ForceInvoked
  /\ (pc["act"] \in {"start", "uVersion", "uFetch"} /\ pc'["act"] # pc["act"]) =>
       /\ fs' = fs
       /\ riftPath' = riftPath
       /\ autostart' = autostart
       /\ client' = client
  /\ (pc["act"] = "start" /\ pc'["act"] = "probe") => ForceInvoked
  /\ (bResult["upg"].kind = "Running" /\ bResult'["upg"].kind = "Failed") =>
       /\ pc'["act"] = pc["act"]
       /\ ctx' = ctx
       /\ fResult' = fResult
       /\ client' = client
       /\ riftPath' = riftPath
       /\ calls' = calls
       /\ shown'["activate"] = shown["activate"]
       /\ shown'["upgrade"].kind = "error"

\* C18: whatever the version query and the manifest fetch give, the step in which
\* the fetch settles calls forceResolveServerOptions with the disk, the settings and
\* the client as they were, exactly as the activation task does when no check runs;
\* an upgrade build that fails shows its own message and touches nothing of the
\* attempt; and the error the activation task shows is always the attempt's own.
C18_CheckFailuresContained == []C18_State /\ [][C18_Step]_vars

\* C18 happens: the check ran on an installed binary, its upgrade build failed, and
\* the attempt returned the launch of that binary, which became the client.
C18_Witness ==
  /\ bResult["upg"].kind = "Failed"
  /\ shown["upgrade"].kind = "error"
  /\ fResult.kind = "Process"
  /\ client = fResult
  /\ shown["activate"] = NoNote

\* C19: once the upgrade build the user accepted has succeeded, rift.riftPath is
\* the path of the launcher that build installed.
C19_UpgradeWritesBuiltBinary ==
  bResult["upg"].kind = "Built" => riftPath = PipLauncher(platform)

\* C20: when `<riftPath> -v` gave no version, the comparison with every manifest
\* version that parses comes out as 'local strictly older', so the upgrade is offered.
C20_NullVersionIsOlder ==
  (pc["act"] = "uFetch" /\ localRiftVersion = NullVersion) =>
    \A remote \in Versions : upgradeCheck(localRiftVersion, remote) = "offer"

\* C21: an attempt whose first liveness probe met a connection error other than a
\* refusal does not end with that error.
C21_ProbeNeverRaises ==
  fFirstProbe = "fault" => fResult # Failed("ProbeError")

C22_Step ==
  (pc["act"] = "waitCheck" /\ pc'["act"] # "waitCheck") =>
    \/ pc'["act"] = "waitUntil"
    \/ fResult' = tcpServerOptions(Port)

\* C22: every step of waitForPort's loop test either goes on polling or ends the
\* wait with the port reachable, the attempt returning its Network endpoint.
C22_WaitSurvivesErrors == [][C22_Step]_vars

C23_Step ==
  deactivated => ~(pc["act"] \in WaitLabels /\ pc'["act"] \in WaitLabels
                     /\ pc'["act"] # pc["act"])

\* C23: once deactivate() has been called, waitForPort makes no further turn of
\* its polling loop.
C23_NoPollAfterDeactivate == [][C23_Step]_vars

\* the attempt is in, or ended in, the branch of line 156 that found the bundle
\* directory: its second tryResolveServerOptions was called without a download
SkippedDownload == fAuto # {} /\ calls.tryResolve = 2 /\ calls.download = 0

C24_State ==
  /\ calls.download = 0 => calls.extract = 0
  /\ SkippedDownload =>
       /\ calls.rm = 0
       /\ exists(Props.bundleLocation)
       /\ prune = NoPrune
       /\ fResult.kind = "Failed" => fResult.err \in {"CouldNotDownload", "ProbeError"}

C24_Step ==
  /\ (pc["act"] = "statBundle" /\ pc'["act"] # "statBundle"
        /\ exists(Props.bundleLocation)) =>
       /\ pc'["act"] = "probe"
       /\ ctx'["act"] = "force2"
       /\ calls'.tryResolve = 2
       /\ calls'.download = 0
       /\ fs' = fs
  /\ (ForceRunning /\ SkippedDownload /\ pc'["act"] # pc["act"]) =>
       /\ pc'["act"] \notin DownloadLabels \cup WaitLabels
       /\ calls'.rm = 0 /\ calls'.download = 0 /\ calls'.extract = 0
       /\ calls'.exec = 0 /\ calls'.readdir = 0 /\ calls'.tryResolve = 2
       /\ fs' = fs
       /\ (pc["act"] = "statBin" /\ ~exists(Props.binLocation)) =>
            fResult' = Failed("CouldNotDownload")

\* C24: when the test of line 156 finds the bundle directory, whatever is in it,
\* the attempt goes straight to its second tryResolveServerOptions and from there
\* never removes an archive, downloads, extracts or writes to the disk; if that
\* call finds no executable the attempt fails with 'Could not download and start
\* prebuilt server.', and the directory is still there for the next attempt.
C24_ExistingDirectoryNeverRefetched == []C24_State /\ [][C24_Step]_vars

\* C24 happens: autostart on, first probe refused, no rift.riftPath, a bundle
\* directory without the executable; the attempt failed without a download.
C24_Witness ==
  /\ fAuto = {TRUE}
  /\ fFirstProbe = "refused"
  /\ riftPath = NoPath
  /\ exists(Props.bundleLocation)
  /\ ~exists(Props.binLocation)
  /\ SkippedDownload
  /\ fResult = Failed("CouldNotDownload")
  /\ shown["activate"].err = "CouldNotDownload"

\* C25: an attempt on a supported platform with autostart on, the first probe refused and no rift.riftPath
\* that ran on a disk as a failed extraction leaves it once the archive is
\* removed (the bundle directory partly written, no executable, no archive) has
\* downloaded and extracted the bundle by the time it ends, unless a probe met a
\* listener or a connection error.
C25_RetryAfterFailedExtraction ==
  (/\ ~UnsupportedPlatform
   /\ fAuto = {TRUE}
   /\ fFirstProbe = "refused"
   /\ riftPath = NoPath
   /\ exists(Props.bundleLocation)
   /\ ~exists(Props.binLocation)
   /\ ~exists(Props.zipLocation)
   /\ fResult \notin {NotReturned, tcpServerOptions(Port), Failed("ProbeError")})
    => calls.download = 1 /\ calls.extract = 1

\* the notification is an error message that has the button 'Try Building Locally'
\* or carries the manual-install instructions
OffersRecovery(note) ==
  /\ note.kind = "error"
  /\ "Try Building Locally" \in note.actions \/ ManualInstallText(note.src)

\* C26: whenever forceResolveServerOptions has failed, the activation task has
\* shown that error with the button 'Try Building Locally'; whenever a buildServer
\* run (by the command or by that button) or an upgrade build has failed, its
\* error has been shown with the manual-install instructions.
C26_EveryFailureOffersRecovery ==
  /\ fResult.kind = "Failed" =>
       /\ OffersRecovery(shown["activate"])
       /\ shown["activate"].err = fResult.err
  /\ \A t \in Builders :
       bResult[t].kind = "Failed" =>
         /\ OffersRecovery(shown[BuildSource(t)])
         /\ shown[BuildSource(t)].err = bResult[t].err
  /\ bResult["upg"].kind = "Failed" =>
       /\ OffersRecovery(shown["upgrade"])
       /\ shown["upgrade"].err = bResult["upg"].err

\* C26 happens: the attempt failed, the user chose 'Try Building Locally', and
\* that build failed too; both errors were shown.
C26_Witness ==
  /\ fResult.kind = "Failed"
  /\ "Try Building Locally" \in shown["activate"].actions
  /\ bResult["act"].kind = "Failed"
  /\ shown["buildServer.act"].kind = "error"

\* the (process.platform, process.arch) pairs getDefaultInstallProps returns for
InstallTargets == {"darwin", "linux", "win32"} \X {"x64", "arm64"}

\* the bundle that is built for a pair: macOS has one for arm64 and one for the rest
Artifact(target) ==
  IF target[1] = "darwin" THEN target ELSE <<target[1], "any">>

C27_State ==
  /\ \A t1 \in InstallTargets, t2 \in InstallTargets :
       LET p1 == getDefaultInstallProps(t1[1], t1[2])
           p2 == getDefaultInstallProps(t2[1], t2[2])
       IN /\ p1.bundleID = p2.bundleID =>
               /\ p1.bundleLocation = p2.bundleLocation
               /\ p1.zipLocation = p2.zipLocation
               /\ p1.binLocation = p2.binLocation
               /\ Artifact(t1) = Artifact(t2)
          /\ Artifact(t1) = Artifact(t2) => p1 = p2
  /\ \A t \in InstallTargets :
       LET p == getDefaultInstallProps(t[1], t[2])
       IN /\ p.bundleLocation = Join(morphDir, p.bundleID)
          /\ p.zipLocation = Join(morphDir, p.bundleID \o <<".zip">>)
          /\ p.binLocation = Join(p.bundleLocation, ExecutableName(t[1]))
          /\ p.version = ExtensionVersion

C27_Step == Props' = Props

Installed ==
  /\ ForceRunning
  /\ ctx["act"] = "force2"
  /\ pc["act"] \in ResolveLabels
  /\ calls.download = 1
  /\ calls.extract = 1

C28_State ==
  Installed =>
    /\ PlatformSupported(platform)
    /\ TRUE \in fAuto
    /\ exists(Props.bundleLocation)
    /\ NeedsChmod(platform) => calls.exec = 1 /\ exists(Props.binLocation)

C28_Step ==
  /\ (Installed /\ exists(Props.binLocation)) => exists(Props.binLocation)'
  /\ (Installed /\ pc'["act"] # pc["act"]) =>
       /\ (pc["act"] = "probe" /\ fResult' = NotReturned) => pc'["act"] = "statCustom"
       /\ (pc["act"] = "statCustom" /\ ~exists(tr["act"].custom)) =>
            pc'["act"] = "statBin"
       /\ (pc["act"] = "statBin" /\ autostart /\ exists(Props.binLocation)) =>
            /\ fResult' = [kind      |-> "Process",
                           command   |-> Join(Join(morphDir, Props.bundleID),
                                              ExecutableName(platform)),
                           args      |-> <<"--port", "7797">>,
                           transport |-> [kind |-> "socket", port |-> Port]]
            /\ client = NoClient =>
                 client' = fResult' /\ pc'["act"] = "done" /\ shown' = shown

\* C28: once download, extraction and chmod have succeeded, the executable of the
\* bundle stays on disk until the attempt ends, and the second
\* tryResolveServerOptions, when its probe is refused, no custom path exists and
\* autostart is on, returns the launch of <morphDir>/<bundleID>/<executable name>
\* with the arguments `--port 7797`, which the attempt returns and the client is
\* built on.
C28_DownloadedBundleLaunched == []C28_State /\ [][C28_Step]_vars

\* C28 happens: on Linux with autostart on throughout, the first probe refused and
\* no rift.riftPath, the attempt downloaded, extracted, ran chmod and returned the
\* launch of the bundle's executable, on which the only client was built.
C28_Witness ==
  /\ platform = "linux"
  /\ fAuto = {TRUE}
  /\ fFirstProbe = "refused"
  /\ riftPath = NoPath
  /\ calls.download = 1 /\ calls.extract = 1 /\ calls.exec = 1
  /\ calls.tryResolve = 2
  /\ LaunchesOn(fResult, Props.binLocation)
  /\ client = fResult
  /\ nClients = 1
  /\ pc["act"] = "done"

\* C29: at no time are two threads inside autoBuild.
C29_OneBuilderAtATime ==
  \A t1 \in Threads, t2 \in Threads :
    (pc[t1] \in BuildLabels /\ pc[t2] \in BuildLabels) => t1 = t2

\* <morphDir>/env, the directory autoBuild makes its environment in
EnvDir == Join(morphDir, Name("env"))

C30_State ==
  /\ \A e \in prune.requested :
       StartsWith(e, <<"rift-">>) /\ e # Props.bundleID /\ e # Name("env")
  /\ prune.pending \subseteq prune.requested

C30_Step ==
  PruneStep =>
    /\ \A p \in fs \ fs' :
         \E e \in prune.requested : IsPrefix(Join(morphDir, e), p)
    /\ \A p \in fs : IsPrefix(EnvDir, p) => p \in fs'
    /\ (IsPrefix(EnvDir, riftPath) /\ exists(riftPath)) => riftPath \in fs'
    /\ riftPath' = riftPath

\* C30: every entry the pruning task asks to remove has a name that begins with
\* 'rift-' and is not the current bundle identifier; a pruning step removes only
\* such entries and what is below them, so <morphDir>/env, everything in it and
\* a rift.riftPath that points into it stay.
C30_PruneOnlyStaleBundles == []C30_State /\ [][C30_Step]_vars

\* C30 happens: a local build made the environment and set rift.riftPath into it
\* while the attempt downloaded; pruning removed the stale bundle and has ended,
\* and the environment's launcher is still there.
C30_Witness ==
  /\ prune.pc = "done"
  /\ StaleBundleID \in prune.requested \ prune.failed
  /\ ~exists(Join(morphDir, StaleBundleID))
  /\ riftPath = EnvRiftPath(platform)
  /\ exists(PipLauncher(platform))
  /\ exists(EnvDir)

\* C31: a pub on a key that sub was never called with throws and calls no function.
C31_PubWithoutSubThrows ==
  (lastPub # NoPub /\ ~lastPub.own) => lastPub.threw /\ lastPub.invoked = << >>

====
